---- MODULE Spec2Model ----
\* Model of the plugin registry, loader and lifecycle manager of NexusCore
\* (src/src/utils/pluginManager.js) together with the plugin record store it
\* talks to (src/src/models/plugin.js).
EXTENDS Integers, Sequences, FiniteSets, TLC

VARIABLES
    plugins,   \* this.plugins: insertion-ordered Map, a sequence of [key, config]
    cache,     \* this.cache: Map key -> [path, errors]
    store,     \* the plugins table: name -> record, or NoRecord
    fs,        \* the plugins directory: folder -> [kind, json, config, routes]
    stats,     \* this.stats: [total, active, errors]
    pc,        \* "idle", or "fs" while loadAllPlugins is in its filesystem pass
    idx,       \* index into FolderOrder of the next directory entry of the pass
    routed,    \* the web layer: name -> number of times its route hook was invoked
    app,       \* the web application the server hands to loadAllPlugins
    pass,      \* what the running pass saw: [store0, dbOk, lsOk, clean, prev,
               \* before, first, again]
    result,    \* what the last operation returned and emitted
    report,    \* the last healthReport of checkPluginHealth
    timers,    \* number of setInterval timers that call checkPluginHealth
    checked,   \* a call of validatePluginConfig: its argument and its outcome
    second,    \* a second, concurrent call of loadAllPlugins: [pc, idx]
    inst,      \* concurrent calls of installPlugin: caller -> [pc, ...]
    ops        \* number of operations started so far

vars == <<plugins, cache, store, fs, stats, pc, idx, routed, app, pass,
          result, report, timers, checked, second, inst, ops>>

\* ---------------------------------------------------------------- bounds

\* Number of operations (loadAll, install, uninstall, update) of one behaviour.
MaxOps == 3

\* ------------------------------------------------------------- text values

\* Strings whose characters matter (route, version) are sequences of
\* one-character strings. <<>> stands for an absent, null or empty value.
Digits == {"0", "1", "2"}
RouteChars == {"a", "b"} \cup Digits \cup {"-"}

NoSeq == <<>>
NoStr == ""

IsNumber(s) == Len(s) > 0 /\ \A i \in 1..Len(s) : s[i] \in Digits

\* (\d+\.)?
OptNumberDot(s) ==
    \/ s = <<>>
    \/ Len(s) >= 2 /\ s[Len(s)] = "." /\ IsNumber(SubSeq(s, 1, Len(s) - 1))

\* /^(\d+\.)?(\d+\.)?(\*|\d+)$/
VersionRegex(s) ==
    \E i \in 0..Len(s) : \E j \in i..Len(s) :
        /\ OptNumberDot(SubSeq(s, 1, i))
        /\ OptNumberDot(SubSeq(s, i + 1, j))
        /\ LET t == SubSeq(s, j + 1, Len(s)) IN t = <<"*">> \/ IsNumber(t)

\* /^\/[a-z0-9-]+(\/[a-z0-9-]+)*$/
RouteRegex(s) ==
    /\ Len(s) >= 2
    /\ s[1] = "/"
    /\ s[Len(s)] # "/"
    /\ \A i \in 1..Len(s) : s[i] = "/" \/ s[i] \in RouteChars
    /\ \A i \in 1..(Len(s) - 1) : ~(s[i] = "/" /\ s[i + 1] = "/")

StartsWithSlash(s) == Len(s) > 0 /\ s[1] = "/"

\* -------------------------------------------------------------- descriptors

Required == {"name", "version", "description", "route", "category"}

Desc(n, v, d, r, c, a) ==
    [name |-> n, version |-> v, description |-> d, route |-> r,
     category |-> c, active |-> a]

\* !config[field]
Falsy(config, field) ==
    CASE field = "name" -> config.name = NoStr
      [] field = "version" -> config.version = NoSeq
      [] field = "description" -> config.description = NoStr
      [] field = "route" -> config.route = NoSeq
      [] field = "category" -> config.category = NoStr

\* the order of the required array
RequiredOrder == <<"name", "version", "description", "route", "category">>

\* variant: required.find instead of required.filter
MissingFields_FirstOnly(config) ==
    LET hits == {i \in 1..Len(RequiredOrder) : Falsy(config, RequiredOrder[i])}
    IN IF hits = {} THEN {}
       ELSE {RequiredOrder[CHOOSE i \in hits : \A j \in hits : i <= j]}

MissingFields(config) == {f \in Required : Falsy(config, f)}

ValidatePluginConfig(config) ==
    /\ MissingFields(config) = {}
    /\ StartsWithSlash(config.route)
    /\ (config.version = NoSeq \/ VersionRegex(config.version))

\* `${name}@${version}`
PluginKey(config) == <<config.name, config.version>>

\* name.toLowerCase().replace(/[^a-z0-9]/g, '-')
Slug(name) ==
    CASE name = "Alpha" -> "alpha"
      [] name = "Beta" -> "beta"
      [] OTHER -> "-"

\* ------------------------------------------------------------ record store

Names == {"Alpha", "Beta"}
Categories == {"tools", "utility"}

\* description: len [10, 2000]
LongEnough(d) == d = "a plugin description"

\* hooks.beforeValidate: a route without a leading slash gets one
BeforeValidate(values) ==
    IF "route" \in DOMAIN values /\ values.route # NoSeq
       /\ ~StartsWithSlash(values.route)
    THEN [values EXCEPT !.route = <<"/">> \o values.route]
    ELSE values

\* The validators of the model's columns, on the columns being written. A null
\* value skips the validators of a column that allows null (version, category).
FieldValid(field, value) ==
    CASE field = "name" -> value # NoStr
      [] field = "version" -> value = NoSeq \/ VersionRegex(value)
      [] field = "description" -> value # NoStr /\ LongEnough(value)
      [] field = "route" -> value # NoSeq /\ RouteRegex(value)
      [] field = "category" -> value = NoStr \/ value \in Categories
      [] field = "active" -> value \in {"true", "false"}

ValuesValid(values) == \A f \in DOMAIN values : FieldValid(f, values[f])

\* unique: true on name and on route
UniqueIn(st, name, values) ==
    /\ "name" \in DOMAIN values =>
           \A n \in DOMAIN st : n # name => st[n].name # values.name
    /\ "route" \in DOMAIN values =>
           \A n \in DOMAIN st : n # name => st[n].route # values.route

Merge(rec, values) ==
    [f \in DOMAIN rec |-> IF f \in DOMAIN values THEN values[f] ELSE rec[f]]

\* defaultValue of the columns a new row does not give
WithDefaults(values) ==
    [values EXCEPT
        !.version = IF @ = NoSeq THEN <<"1", ".", "0", ".", "0">> ELSE @,
        !.category = IF @ = NoStr THEN "utility" ELSE @,
        !.active = IF @ = "unset" THEN "true" ELSE @]

\* variant: the name column is not unique, a creation under a name the
\* store already holds succeeds
DbCreate_NameNotUnique(st, values) ==
    LET v == BeforeValidate(WithDefaults(values))
        ok == ValuesValid(v) /\ UniqueIn(st, v.name, v)
    IN  [ok |-> ok,
         store |-> IF ok
                   THEN [n \in DOMAIN st \cup {v.name} |->
                            IF n = v.name THEN v ELSE st[n]]
                   ELSE st]

\* Plugin.create(values): [ok, store]
DbCreate(st, values) ==
    LET v == BeforeValidate(WithDefaults(values))
        ok == /\ ValuesValid(v)
              /\ v.name \notin DOMAIN st
              /\ UniqueIn(st, v.name, v)
    IN  [ok |-> ok,
         store |-> IF ok
                   THEN [n \in DOMAIN st \cup {v.name} |->
                            IF n = v.name THEN v ELSE st[n]]
                   ELSE st]

\* Plugin.update(values, {where: {name}}): [ok, count, store]
DbUpdate(st, name, values) ==
    LET v == BeforeValidate(values)
        ok == ValuesValid(v) /\ (name \in DOMAIN st => UniqueIn(st, name, v))
        hit == ok /\ name \in DOMAIN st
    IN  [ok |-> ok,
         count |-> IF hit THEN 1 ELSE 0,
         store |-> IF hit THEN [st EXCEPT ![name] = Merge(st[name], v)] ELSE st]

\* order: [['category', 'ASC'], ['name', 'ASC']]
SortRank(rec) ==
    (CASE rec.category = "tools" -> 10
       [] rec.category = "utility" -> 20
       [] OTHER -> 90)
    + (CASE rec.name = "Alpha" -> 1 [] rec.name = "Beta" -> 2 [] OTHER -> 9)

RECURSIVE SortRecords(_)
SortRecords(S) ==
    IF S = {} THEN <<>>
    ELSE LET m == CHOOSE x \in S : \A y \in S : SortRank(x) <= SortRank(y)
         IN  <<m>> \o SortRecords(S \ {m})

\* variant: the fetch asks for the records that are not active
FindAllActive_Inverted(st) ==
    SortRecords({st[n] : n \in {m \in DOMAIN st : st[m].active # "true"}})

\* Plugin.findAll({where: {active: true}, order})
FindAllActive(st) ==
    SortRecords({st[n] : n \in {m \in DOMAIN st : st[m].active = "true"}})

\* ------------------------------------------------------------ the two Maps

MapKeys(m) == {m[i].key : i \in 1..Len(m)}
MapHas(m, k) == k \in MapKeys(m)
MapGet(m, k) == m[CHOOSE i \in 1..Len(m) : m[i].key = k].config
MapValues(m) == [i \in 1..Len(m) |-> m[i].config]
MapSet(m, k, v) ==
    IF MapHas(m, k)
    THEN [i \in 1..Len(m) |-> IF m[i].key = k THEN [key |-> k, config |-> v] ELSE m[i]]
    ELSE Append(m, [key |-> k, config |-> v])
MapDelete(m, k) == SelectSeq(m, LAMBDA e : e.key # k)

\* Array.prototype.find over the values: the index of the first match, or 0
FindIndex(m, hits) ==
    IF hits = {} THEN 0 ELSE CHOOSE i \in hits : \A j \in hits : i <= j

CacheSet(c, k, v) == [x \in DOMAIN c \cup {k} |-> IF x = k THEN v ELSE c[x]]
\* variant: the cache entry of a deleted key stays
CacheDelete_Keeps(c, k) == c
CacheDelete(c, k) == [x \in DOMAIN c \ {k} |-> c[x]]
EmptyCache == [x \in {} |-> 0]

\* ------------------------------------------------------------- the universe

V1 == <<"1", ".", "0", ".", "0">>
V2 == <<"2", ".", "0", ".", "0">>
RouteA == <<"/", "a">>
RouteB == <<"/", "b">>
Text == "a plugin description"

A1 == Desc("Alpha", V1, Text, RouteA, "tools", "unset")
A1x == Desc("Alpha", V1, Text, RouteA, "utility", "unset")
A2 == Desc("Alpha", V2, Text, RouteA, "tools", "unset")
Ba == Desc("Beta", V1, Text, RouteA, "utility", "true")
Bbad == Desc("Beta", V1, Text, RouteB, NoStr, "unset")
BbadA == Desc("Beta", V1, Text, RouteA, NoStr, "unset")
NoConfig == Desc(NoStr, NoSeq, NoStr, NoSeq, NoStr, "unset")

\* fs.readdir lists the directory entries in this order.
FolderOrder == <<"alpha", "alpha-v2", "beta">>
Folders == {FolderOrder[i] : i \in 1..Len(FolderOrder)}

Absent == [kind |-> "absent", json |-> "none", config |-> NoConfig, routes |-> "none"]
\* an entry fs.stat fails on (a dangling link)
Broken == [kind |-> "broken", json |-> "none", config |-> NoConfig, routes |-> "none"]
\* a directory whose plugin.json JSON.parse fails on
BadJson == [kind |-> "dir", json |-> "bad", config |-> NoConfig, routes |-> "none"]
Dir(config, routes) == [kind |-> "dir", json |-> "ok", config |-> config, routes |-> routes]

InitFolder(f) ==
    CASE f = "alpha" -> {Absent, Dir(A1x, "ok"), Dir(A1x, "throws")}
      [] f = "alpha-v2" -> {Absent, Dir(A1, "none"), Dir(A2, "none")}
      [] f = "beta" -> {Absent, Dir(Ba, "none"), Dir(Bbad, "none")}

\* the same, with the entries a pass fails on
FaultyFolder(f) ==
    CASE f = "alpha" -> InitFolder(f) \cup {BadJson}
      [] f = "alpha-v2" -> InitFolder(f) \cup {Broken}
      [] f = "beta" -> InitFolder(f)

\* the express application, or an object whose locals cannot be assigned
Apps == {"express", "noLocals"}

EmptyStore == [n \in {} |-> NoConfig]
InitStores ==
    {EmptyStore,
     [n \in {"Alpha"} |-> [A1 EXCEPT !.active = "true"]],
     [n \in {"Alpha"} |-> [A1 EXCEPT !.active = "false"]]}

InstallInputs == {A1, Ba, BbadA}
\* an upload or none, and which step of the call fails, if any
InstallCalls == {<<FALSE, "ok">>, <<TRUE, "ok">>, <<FALSE, "fsFail">>,
                 <<TRUE, "mvFail">>, <<FALSE, "dbFail">>}
Patches == {[version |-> V2], [route |-> RouteB], [category |-> NoStr],
            [active |-> "false"]}

\* ------------------------------------------------------------------ results

\* What a call returned and emitted. error is the kind of the message thrown:
\* 'Invalid plugin configuration' is INVALID_CONFIG, 'Plugin conflict: <named>
\* already exists' is CONFLICT, 'Plugin <name> not found' is NOT_FOUND, any
\* other exception is IO_FAILURE.
\* name and data are the arguments of the call (a descriptor for install).
\* clean (history) is written by loadAllPlugins: whether the pass went as a
\* pass goes whose store and filesystem calls all succeed.
Result(op, name, data, success, error, named, event) ==
    [op |-> op, name |-> name, data |-> data, success |-> success,
     error |-> error, named |-> named, event |-> event, clean |-> TRUE]
NoResult == Result("none", NoStr, NoConfig, TRUE, "none", NoStr, "none")

EmptyFirst == [k \in {} |-> NoConfig]
\* What a pass of loadAllPlugins met (history): the store as the pass found
\* it, whether its fetch and its readdir succeeded, whether the pass went so
\* far as one without store or filesystem failures goes (clean), the result
\* of the call before it, the Registry the loadAllPlugins before it left (when
\* the call before it was one), and the candidates.
NoPass == [store0 |-> EmptyStore, dbOk |-> TRUE, lsOk |-> TRUE, clean |-> TRUE,
           prev |-> NoResult, before |-> <<>>,
           first |-> EmptyFirst, again |-> {}]

\* validatePluginConfig has not been called
NoCheck == [config |-> NoConfig, done |-> FALSE, ok |-> FALSE,
            message |-> "none", fields |-> {}]

\* no second call of loadAllPlugins is running
NoSecond == [pc |-> "idle", idx |-> 0]

\* the callers of the concurrent installs, none of them calling
Callers == {"c1", "c2"}
NoCall == [pc |-> "idle", file |-> FALSE, data |-> NoConfig, io |-> "ok",
           passed |-> FALSE, result |-> NoResult]
NoCalls == [c \in Callers |-> NoCall]

\* no health check has run yet
NoReport == [total |-> 0, healthy |-> 0, warnings |-> 0, errors |-> 0,
             details |-> <<>>]

Init ==
    /\ plugins = <<>>
    /\ cache = EmptyCache
    /\ store \in InitStores
    /\ fs \in {f \in [Folders -> UNION {InitFolder(x) : x \in Folders}] :
                  \A x \in Folders : f[x] \in InitFolder(x)}
    /\ stats = [total |-> 0, active |-> 0, errors |-> 0]
    /\ pc = "idle"
    /\ idx = 0
    /\ routed = [n \in Names |-> 0]
    /\ app = "express"
    /\ pass = NoPass
    /\ result = NoResult
    /\ report = NoReport
    /\ timers = 0
    /\ checked = NoCheck
    /\ second = NoSecond
    /\ inst = NoCalls
    /\ ops = 0

\* ----------------------------------------------------------------- loading

\* the entries fs.readdir returns
Listing(f) == SelectSeq(FolderOrder, LAMBDA x : f[x].kind # "absent")

\* routesModule.default(app, config): the hook of a folder is run against the
\* web layer when the folder has a routes.js
RunHook(r, f, folder, name) ==
    IF folder \in Folders /\ f[folder].kind = "dir" /\ f[folder].routes # "none"
    THEN [r EXCEPT ![name] = @ + 1]
    ELSE r

\* registerPlugin(app, config): the hook of the folder named after the plugin;
\* whatever it throws is caught
RegisterPlugin(r, f, config) == RunHook(r, f, Slug(config.name), config.name)

\* variant: the check whether the key is already loaded is left out
AlreadyLoaded_Never(m, key) == FALSE

\* this.plugins.has(pluginKey)
AlreadyLoaded(m, key) == MapHas(m, key)

\* loadFromDatabase: the loop over the fetched records
RECURSIVE DbPass(_, _, _, _)
DbPass(recs, i, f, acc) ==
    IF i > Len(recs) THEN acc
    ELSE LET d == recs[i]
             key == PluginKey(d)
         IN  DbPass(recs, i + 1, f,
                 IF AlreadyLoaded(acc.plugins, key) THEN acc
                 ELSE [plugins |-> MapSet(acc.plugins, key, d),
                       routed |-> RegisterPlugin(acc.routed, f, d)])

\* loadFromDatabase: a failed fetch is caught and logged, nothing is loaded
LoadFromDatabase(st, f, r, dbOk) ==
    DbPass(IF dbOk THEN FindAllActive(st) ELSE <<>>, 1, f,
           [plugins |-> <<>>, routed |-> r])

\* {...config}: the columns a descriptor file gives
ConfigValues(config) ==
    [f \in Required \cup (IF config.active = "unset" THEN {} ELSE {"active"})
        |-> config[f]]

\* saveToDatabase(config): findOrCreate by name, update when found; every
\* failure is caught, so the caller sees none
SaveToDatabase(st, config, dbOk) ==
    IF ~dbOk THEN st
    ELSE IF config.name \in DOMAIN st
         THEN DbUpdate(st, config.name, ConfigValues(config)).store
         ELSE DbCreate(st, [config EXCEPT !.active = "true"]).store

\* loadPluginFromFolder(app, folder, pluginPath) on a directory entry e:
\* what it leaves of the Registry, the cache, the store, the web layer and
\* stats.errors
LoadPluginFromFolder(folder, e, dbOk) ==
    LET config == e.config
        key == PluginKey(config)
        same == [plugins |-> plugins, cache |-> cache, store |-> store,
                 routed |-> routed, errors |-> stats.errors]
    IN  IF e.json = "none" THEN same
        ELSE IF e.json = "bad" THEN [same EXCEPT !.errors = @ + 1]
        ELSE IF ~ValidatePluginConfig(config) THEN same
        ELSE IF AlreadyLoaded(plugins, key) THEN same
        ELSE IF e.routes = "throws"
        THEN [same EXCEPT !.routed = RunHook(routed, fs, folder, config.name),
                          !.errors = @ + 1]
        ELSE [plugins |-> MapSet(plugins, key, config),
              cache |-> CacheSet(cache, key, [path |-> folder, errors |-> 0]),
              store |-> SaveToDatabase(store, config, dbOk),
              routed |-> RunHook(routed, fs, folder, config.name),
              errors |-> stats.errors]

\* the candidates of a pass: the first descriptor seen under each key, and
\* the keys that came again
NoteCandidate(p, config) ==
    IF PluginKey(config) \in DOMAIN p.first
    THEN [p EXCEPT !.again = @ \cup {PluginKey(config)}]
    ELSE [p EXCEPT !.first = [k \in DOMAIN p.first \cup {PluginKey(config)} |->
                                IF k = PluginKey(config) THEN config
                                ELSE p.first[k]]]

\* loadAllPlugins up to the end of loadFromDatabase and the readdir of
\* loadFromFilesystem
LoadStart(dbOk, lsOk) ==
    /\ pc = "idle"
    /\ ops < MaxOps
    /\ \E acc \in {LoadFromDatabase(store, fs, routed, dbOk)} :
           /\ plugins' = acc.plugins
           /\ routed' = acc.routed
           /\ pass' = [store0 |-> store, dbOk |-> dbOk, lsOk |-> lsOk,
                       clean |-> /\ acc = LoadFromDatabase(store, fs, routed, TRUE)
                                 /\ (lsOk \/ Listing(fs) = <<>>),
                       prev |-> result,
                       before |-> IF result.op = "loadAll" THEN plugins ELSE <<>>,
                       first |-> [k \in MapKeys(acc.plugins) |->
                                     MapGet(acc.plugins, k)],
                       again |-> {}]
    /\ cache' = EmptyCache
    /\ pc' = "fs"
    /\ idx' = IF lsOk THEN 1 ELSE Len(Listing(fs)) + 1
    /\ result' = Result("loadAll", NoStr, NoConfig, TRUE, "none", NoStr, "none")
    /\ ops' = ops + 1
    /\ UNCHANGED <<checked, second, inst, timers, app, report, store, fs, stats>>

\* one turn of the loop of loadFromFilesystem
LoadFolder(dbOk) ==
    /\ pc = "fs"
    /\ idx <= Len(Listing(fs))
    /\ LET folder == Listing(fs)[idx]
           e == fs[folder]
       IN  IF e.kind = "broken"
           THEN /\ idx' = Len(Listing(fs)) + 1
                /\ UNCHANGED <<checked, second, inst, timers, app, report, plugins, cache, store, routed, stats, pass>>
           ELSE \E out \in {LoadPluginFromFolder(folder, e, dbOk)} :
                    /\ plugins' = out.plugins
                    /\ cache' = out.cache
                    /\ store' = out.store
                    /\ routed' = out.routed
                    /\ stats' = [stats EXCEPT !.errors = out.errors]
                    /\ pass' = [(IF e.json = "ok"
                                 THEN NoteCandidate(pass, e.config)
                                 ELSE pass)
                                   EXCEPT !.clean =
                                       @ /\ (dbOk \/ out.plugins = plugins)]
                    /\ idx' = idx + 1
    /\ UNCHANGED <<checked, second, inst, timers, app, report, fs, pc, result, ops>>

\* variant: loadAllPlugins has no outer catch, what the assignment to
\* app.locals throws leaves the call without an event
LoadFinish_NoCatch ==
    /\ pc = "fs"
    /\ idx > Len(Listing(fs))
    /\ IF app = "express"
       THEN /\ stats' = [total |-> Len(plugins),
                         active |-> Cardinality({i \in 1..Len(plugins) :
                                                    plugins[i].config.active = "true"}),
                         errors |-> stats.errors]
            /\ result' = [result EXCEPT !.event = "plugins:loaded",
                                        !.clean = pass.clean]
            /\ timers' = timers + 1
       ELSE /\ stats' = stats
            /\ result' = [result EXCEPT !.error = "THROWN", !.clean = pass.clean]
            /\ timers' = timers
    /\ pc' = "idle"
    /\ idx' = 0
    /\ pass' = NoPass
    /\ UNCHANGED <<checked, second, inst, app, report, plugins, cache, store, fs,
                   routed, ops>>

\* loadAllPlugins after loadFromFilesystem
\* and the outer catch, which an app that does not take the assignments to
\* app.locals leads to
LoadFinish ==
    /\ pc = "fs"
    /\ idx > Len(Listing(fs))
    /\ IF app = "express"
       THEN /\ stats' = [total |-> Len(plugins),
                         active |-> Cardinality({i \in 1..Len(plugins) :
                                                    plugins[i].config.active = "true"}),
                         errors |-> stats.errors]
            /\ result' = [result EXCEPT !.event = "plugins:loaded",
                                        !.clean = pass.clean]
            /\ timers' = timers + 1
       ELSE /\ stats' = [stats EXCEPT !.errors = @ + 1]
            /\ result' = [result EXCEPT !.event = "plugins:error",
                                        !.clean = pass.clean]
            /\ timers' = timers
    /\ pc' = "idle"
    /\ idx' = 0
    /\ pass' = NoPass
    /\ UNCHANGED <<checked, second, inst, app, report, plugins, cache, store, fs,
                   routed, ops>>

\* --------------------------------------------------------------- lifecycle

\* .find(p => p.name === pluginData.name || p.route === pluginData.route)
ConflictIndex(m, pluginData) ==
    FindIndex(m, {i \in DOMAIN m : m[i].config.name = pluginData.name
                                   \/ m[i].config.route = pluginData.route})

\* fs.mkdir(pluginPath) and fs.writeFile(plugin.json): an existing routes.js stays
WriteDescriptor(f, pluginData) ==
    [f EXCEPT ![Slug(pluginData.name)] =
        [kind |-> "dir", json |-> "ok", config |-> pluginData, routes |-> @.routes]]

\* variant: the conflict check compares the name only
PreCheck_NameOnly(m, pluginData) ==
    LET existing == FindIndex(m, {i \in DOMAIN m : m[i].config.name = pluginData.name})
    IN  IF ~ValidatePluginConfig(pluginData)
        THEN [error |-> "INVALID_CONFIG", named |-> NoStr]
        ELSE IF existing # 0
        THEN [error |-> "CONFLICT", named |-> m[existing].config.name]
        ELSE [error |-> "none", named |-> NoStr]

\* variant: the descriptor is not validated before it is persisted
PreCheck_NoValidation(m, pluginData) ==
    LET existing == ConflictIndex(m, pluginData)
    IN  IF existing # 0
        THEN [error |-> "CONFLICT", named |-> m[existing].config.name]
        ELSE [error |-> "none", named |-> NoStr]

\* installPlugin, "Validate plugin" and "Check for conflicts": the error
\* thrown, if any, and the plugin the message names
PreCheck(m, pluginData) ==
    LET existing == ConflictIndex(m, pluginData)
    IN  IF ~ValidatePluginConfig(pluginData)
        THEN [error |-> "INVALID_CONFIG", named |-> NoStr]
        ELSE IF existing # 0
        THEN [error |-> "CONFLICT", named |-> m[existing].config.name]
        ELSE [error |-> "none", named |-> NoStr]

\* installPlugin(pluginFile, pluginData): [fs, store, result]
InstallPlugin(pluginFile, pluginData, io) ==
    LET name == pluginData.name
        failed(error, named, f) ==
            [fs |-> f, store |-> store,
             result |-> Result("install", name, pluginData, FALSE, error,
                               named, "plugin:install:error")]
        check == PreCheck(plugins, pluginData)
        written == WriteDescriptor(fs, pluginData)
        created == DbCreate(store, [pluginData EXCEPT !.active = "true"])
    IN  IF check.error # "none" THEN failed(check.error, check.named, fs)
        ELSE IF io = "fsFail" THEN failed("IO_FAILURE", NoStr, fs)
        ELSE IF pluginFile /\ io = "mvFail" THEN failed("IO_FAILURE", NoStr, written)
        ELSE IF io = "dbFail" \/ ~created.ok
        THEN failed("IO_FAILURE", NoStr, written)
        ELSE [fs |-> written, store |-> created.store,
              result |-> Result("install", name, pluginData, TRUE, "none",
                                NoStr, "plugin:installed")]

\* variant: a successful install also puts the descriptor into the Registry
Install_Registers(pluginFile, pluginData, io) ==
    /\ pc = "idle"
    /\ ops < MaxOps
    /\ \E out \in {InstallPlugin(pluginFile, pluginData, io)} :
           /\ fs' = out.fs
           /\ store' = out.store
           /\ result' = out.result
           /\ plugins' = IF out.result.success
                         THEN MapSet(plugins, PluginKey(pluginData), pluginData)
                         ELSE plugins
    /\ ops' = ops + 1
    /\ UNCHANGED <<checked, second, inst, timers, app, report, cache, stats, pc, idx, routed, pass>>

Install(pluginFile, pluginData, io) ==
    /\ pc = "idle"
    /\ ops < MaxOps
    /\ \E out \in {InstallPlugin(pluginFile, pluginData, io)} :
           /\ fs' = out.fs
           /\ store' = out.store
           /\ result' = out.result
    /\ ops' = ops + 1
    /\ UNCHANGED <<checked, second, inst, timers, app, report, plugins, cache, stats, pc, idx, routed, pass>>

\* variant: the store is updated before the Registry is searched
UninstallPlugin_StoreFirst(pluginName, dbOk) ==
    LET found == FindIndex(plugins, {i \in DOMAIN plugins : plugins[i].config.name = pluginName})
        st == IF dbOk THEN DbUpdate(store, pluginName, [active |-> "false"]).store
              ELSE store
        failed(error) ==
            [plugins |-> plugins, cache |-> cache, store |-> st,
             result |-> Result("uninstall", pluginName, NoConfig, FALSE, error, NoStr,
                               "none")]
    IN  IF ~dbOk THEN failed("IO_FAILURE")
        ELSE IF found = 0 THEN failed("NOT_FOUND")
        ELSE LET pluginKey == PluginKey(plugins[found].config)
             IN  [plugins |-> MapDelete(plugins, pluginKey),
                  cache |-> CacheDelete(cache, pluginKey),
                  store |-> st,
                  result |-> Result("uninstall", pluginName, NoConfig, TRUE, "none",
                                    NoStr, "plugin:uninstalled")]

\* uninstallPlugin(pluginName): [plugins, cache, store, result]
UninstallPlugin(pluginName, dbOk) ==
    LET found == FindIndex(plugins, {i \in DOMAIN plugins : plugins[i].config.name = pluginName})
        failed(error) ==
            [plugins |-> plugins, cache |-> cache, store |-> store,
             result |-> Result("uninstall", pluginName, NoConfig, FALSE, error, NoStr,
                               "none")]
    IN  IF found = 0 THEN failed("NOT_FOUND")
        ELSE IF ~dbOk THEN failed("IO_FAILURE")
        ELSE LET pluginKey == PluginKey(plugins[found].config)
             IN  [plugins |-> MapDelete(plugins, pluginKey),
                  cache |-> CacheDelete(cache, pluginKey),
                  store |-> DbUpdate(store, pluginName, [active |-> "false"]).store,
                  result |-> Result("uninstall", pluginName, NoConfig, TRUE, "none",
                                    NoStr, "plugin:uninstalled")]

Uninstall(pluginName, dbOk) ==
    /\ pc = "idle"
    /\ ops < MaxOps
    /\ \E out \in {UninstallPlugin(pluginName, dbOk)} :
           /\ plugins' = out.plugins
           /\ cache' = out.cache
           /\ store' = out.store
           /\ result' = out.result
    /\ ops' = ops + 1
    /\ UNCHANGED <<checked, second, inst, timers, app, report, fs, stats, pc, idx, routed, pass>>

\* variant: updatePlugin without its catch, a failure of the store leaves
\* the call as an exception
UpdatePlugin_NoCatch(pluginName, updateData, dbOk) ==
    LET updated == DbUpdate(store, pluginName, updateData)
        failed(error) ==
            [plugins |-> plugins, store |-> store,
             result |-> Result("update", pluginName, NoConfig, FALSE, error, NoStr,
                               "none")]
    IN  IF ~dbOk \/ ~updated.ok THEN failed("THROWN")
        ELSE IF updated.count = 0 THEN failed("THROWN")
        ELSE LET plugin == updated.store[pluginName]
             IN  [plugins |-> MapSet(plugins, PluginKey(plugin), plugin),
                  store |-> updated.store,
                  result |-> Result("update", pluginName, NoConfig, TRUE, "none",
                                    NoStr, "plugin:updated")]

\* updatePlugin(pluginName, updateData): [plugins, store, result]
UpdatePlugin(pluginName, updateData, dbOk) ==
    LET updated == DbUpdate(store, pluginName, updateData)
        failed(error) ==
            [plugins |-> plugins, store |-> store,
             result |-> Result("update", pluginName, NoConfig, FALSE, error, NoStr,
                               "none")]
    IN  IF ~dbOk \/ ~updated.ok THEN failed("IO_FAILURE")
        ELSE IF updated.count = 0 THEN failed("NOT_FOUND")
        ELSE LET plugin == updated.store[pluginName]
             IN  [plugins |-> MapSet(plugins, PluginKey(plugin), plugin),
                  store |-> updated.store,
                  result |-> Result("update", pluginName, NoConfig, TRUE, "none",
                                    NoStr, "plugin:updated")]

Update(pluginName, updateData, dbOk) ==
    /\ pc = "idle"
    /\ ops < MaxOps
    /\ \E out \in {UpdatePlugin(pluginName, updateData, dbOk)} :
           /\ plugins' = out.plugins
           /\ store' = out.store
           /\ result' = out.result
    /\ ops' = ops + 1
    /\ UNCHANGED <<checked, second, inst, timers, app, report, cache, fs, stats, pc, idx, routed, pass>>

\* ------------------------------------------------------------------ health

\* cacheEntry.stats.errors > 10
HealthThreshold == 10

\* variant: the threshold itself already counts as too many
TooManyErrors_AtLeast(cacheEntry) == cacheEntry.errors >= HealthThreshold

TooManyErrors(cacheEntry) == cacheEntry.errors > HealthThreshold

\* checkPluginHealth: the loop over this.plugins, in the order of the Map
RECURSIVE HealthPass(_, _, _, _)
HealthPass(m, c, i, healthReport) ==
    IF i > Len(m) THEN healthReport
    ELSE LET key == m[i].key
             plugin == m[i].config
         IN  HealthPass(m, c, i + 1,
                 IF key \in DOMAIN c /\ TooManyErrors(c[key])
                 THEN [healthReport EXCEPT
                          !.errors = @ + 1,
                          !.details = Append(@, [plugin |-> plugin.name,
                                                 status |-> "error"])]
                 ELSE [healthReport EXCEPT
                          !.healthy = @ + 1,
                          !.details = Append(@, [plugin |-> plugin.name,
                                                 status |-> "healthy"])])

HealthReport(m, c) ==
    HealthPass(m, c, 1, [total |-> Len(m), healthy |-> 0, warnings |-> 0,
                         errors |-> 0, details |-> <<>>])

\* variant: the check takes the plugins it reports as error out of the
\* Registry and the cache
CheckPluginHealth_Remediates ==
    /\ report' = HealthReport(plugins, cache)
    /\ result' = Result("health", NoStr, NoConfig, TRUE, "none", NoStr,
                        "plugins:health")
    /\ plugins' = SelectSeq(plugins, LAMBDA e :
                      ~(e.key \in DOMAIN cache /\ TooManyErrors(cache[e.key])))
    /\ cache' = [k \in {x \in DOMAIN cache : ~TooManyErrors(cache[x])} |-> cache[k]]
    /\ UNCHANGED <<store, fs, stats, pc, idx, routed, app, pass, ops, timers,
                   checked, second, inst>>

\* checkPluginHealth(): the timer of startHealthMonitor, or anyone, calls it
CheckPluginHealth ==
    /\ report' = HealthReport(plugins, cache)
    /\ result' = Result("health", NoStr, NoConfig, TRUE, "none", NoStr,
                        "plugins:health")
    /\ UNCHANGED <<plugins, cache, store, fs, stats, pc, idx, routed, app,
                   pass, ops, timers, checked, second, inst>>

\* The error counters of the cache entries are written by no code of the
\* manager; whoever holds the exported manager counts in them. The health
\* check is taken over every content of the two Maps: a Registry of up to
\* three plugins, and for each of them no cache entry or one with a counter.
ErrorCounts == {0, 5, HealthThreshold, HealthThreshold + 1}

HealthPlugins ==
    <<[A1 EXCEPT !.active = "true"], [A2 EXCEPT !.active = "true"], Ba>>

HealthKeys == {PluginKey(HealthPlugins[i]) : i \in 1..Len(HealthPlugins)}

HealthRegistries ==
    {SelectSeq([i \in 1..Len(HealthPlugins) |->
                   [key |-> PluginKey(HealthPlugins[i]), config |-> HealthPlugins[i]]],
               LAMBDA e : e.key \in K) : K \in SUBSET HealthKeys}

HealthCaches ==
    UNION {[K -> {[path |-> "plugins", errors |-> n] : n \in ErrorCounts}] :
              K \in SUBSET HealthKeys}

HealthInit ==
    /\ plugins \in HealthRegistries
    /\ cache \in HealthCaches
    /\ store = EmptyStore
    /\ fs = [x \in Folders |-> Absent]
    /\ stats = [total |-> 0, active |-> 0, errors |-> 0]
    /\ pc = "idle"
    /\ idx = 0
    /\ routed = [n \in Names |-> 0]
    /\ app = "express"
    /\ pass = NoPass
    /\ result = NoResult
    /\ report = NoReport
    /\ timers = 0
    /\ checked = NoCheck
    /\ second = NoSecond
    /\ inst = NoCalls
    /\ ops = 0

HealthSpec == HealthInit /\ [][CheckPluginHealth]_vars

Next ==
    \/ \E dbOk \in BOOLEAN, lsOk \in BOOLEAN : LoadStart(dbOk, lsOk)
    \/ \E dbOk \in BOOLEAN : LoadFolder(dbOk)
    \/ LoadFinish
    \/ \E call \in InstallCalls, pluginData \in InstallInputs :
           Install(call[1], pluginData, call[2])
    \/ \E pluginName \in Names, dbOk \in BOOLEAN : Uninstall(pluginName, dbOk)
    \/ \E pluginName \in Names, updateData \in Patches, dbOk \in BOOLEAN :
           Update(pluginName, updateData, dbOk)

Spec == Init /\ [][Next]_vars

\* The same program where the plugins directory may hold entries a pass fails
\* on and the app may be one that refuses the assignments to app.locals.
InitFaults ==
    /\ plugins = <<>>
    /\ cache = EmptyCache
    /\ store \in InitStores
    /\ fs \in {f \in [Folders -> UNION {FaultyFolder(x) : x \in Folders}] :
                  \A x \in Folders : f[x] \in FaultyFolder(x)}
    /\ stats = [total |-> 0, active |-> 0, errors |-> 0]
    /\ pc = "idle"
    /\ idx = 0
    /\ routed = [n \in Names |-> 0]
    /\ app \in Apps
    /\ pass = NoPass
    /\ result = NoResult
    /\ report = NoReport
    /\ timers = 0
    /\ checked = NoCheck
    /\ second = NoSecond
    /\ inst = NoCalls
    /\ ops = 0

FaultSpec == InitFaults /\ [][Next]_vars

\* The server calling loadAllPlugins again and again. A call that has started
\* goes on whenever the store or filesystem call it awaits has returned or
\* failed: its going on (the next turn of its loop, or its end) is weakly fair.
LoadNext ==
    \/ \E dbOk \in BOOLEAN, lsOk \in BOOLEAN : LoadStart(dbOk, lsOk)
    \/ \E dbOk \in BOOLEAN : LoadFolder(dbOk)
    \/ LoadFinish

\* the running call goes on
LoadContinues == (\E dbOk \in BOOLEAN : LoadFolder(dbOk)) \/ LoadFinish

LoadSpec == InitFaults /\ [][LoadNext]_vars /\ WF_vars(LoadContinues)

\* ------------------------------------------------------------ the validator

\* the longest route and the longest version handed to the validator
MaxRouteLen == 3
MaxVersionLen == 3

RouteInputChars == {"/", "a", "A", " "}
VersionInputChars == {"1", ".", "*", "a"}

SeqsUpTo(S, n) == UNION {[1..k -> S] : k \in 0..n}

\* what validatePluginConfig hands to logger.error before it returns false
ValidatorLog(config) ==
    IF MissingFields(config) # {}
    THEN [message |-> "Missing required fields", fields |-> MissingFields(config)]
    ELSE IF ~StartsWithSlash(config.route)
    THEN [message |-> "Route must start with /", fields |-> {}]
    ELSE IF config.version # NoSeq /\ ~VersionRegex(config.version)
    THEN [message |-> "Invalid version format", fields |-> {}]
    ELSE [message |-> "none", fields |-> {}]

\* the descriptors handed to the validator: every route with a good version,
\* every version with a good route, each with or without the plain fields
ValidatorInputs ==
    {Desc(n, v, d, r, c, "unset") :
        n \in {NoStr, "Alpha"}, d \in {NoStr, Text}, c \in {NoStr, "tools"},
        v \in {V1}, r \in SeqsUpTo(RouteInputChars, MaxRouteLen)}
    \cup
    {Desc(n, v, d, r, c, "unset") :
        n \in {NoStr, "Alpha"}, d \in {NoStr, Text}, c \in {NoStr, "tools"},
        v \in SeqsUpTo(VersionInputChars, MaxVersionLen), r \in {RouteA}}

\* one call of validatePluginConfig
Validate ==
    /\ ~checked.done
    /\ checked' = [config |-> checked.config,
                   done |-> TRUE,
                   ok |-> ValidatePluginConfig(checked.config),
                   message |-> ValidatorLog(checked.config).message,
                   fields |-> ValidatorLog(checked.config).fields]
    /\ UNCHANGED <<plugins, cache, store, fs, stats, pc, idx, routed, app,
                   pass, result, report, timers, second, inst, ops>>

\* a manager on which nothing has been called
AtRest ==
    /\ plugins = <<>>
    /\ cache = EmptyCache
    /\ stats = [total |-> 0, active |-> 0, errors |-> 0]
    /\ pc = "idle"
    /\ idx = 0
    /\ routed = [n \in Names |-> 0]
    /\ app = "express"
    /\ pass = NoPass
    /\ result = NoResult
    /\ report = NoReport
    /\ timers = 0
    /\ ops = 0

ValidatorInit ==
    /\ AtRest
    /\ store = EmptyStore
    /\ fs = [x \in Folders |-> Absent]
    /\ checked \in {[NoCheck EXCEPT !.config = c] : c \in ValidatorInputs}
    /\ second = NoSecond
    /\ inst = NoCalls

ValidatorSpec == ValidatorInit /\ [][Validate]_vars

\* ------------------------------------------------------ two calls of loadAll

\* A second caller of loadAllPlugins on the same manager. The method tests
\* nothing before it clears the Maps, so its call starts whatever the first
\* call is doing. Its steps are those of LoadStart, LoadFolder and LoadFinish
\* with a position of its own.
SecondStart(dbOk, lsOk) ==
    /\ second.pc = "idle"
    /\ ops < MaxOps
    /\ \E acc \in {LoadFromDatabase(store, fs, routed, dbOk)} :
           /\ plugins' = acc.plugins
           /\ routed' = acc.routed
    /\ cache' = EmptyCache
    /\ second' = [pc |-> "fs", idx |-> IF lsOk THEN 1 ELSE Len(Listing(fs)) + 1]
    /\ ops' = ops + 1
    /\ UNCHANGED <<checked, inst, timers, app, report, store, fs, stats, pc,
                   idx, pass, result>>

SecondFolder(dbOk) ==
    /\ second.pc = "fs"
    /\ second.idx <= Len(Listing(fs))
    /\ LET folder == Listing(fs)[second.idx]
           e == fs[folder]
       IN  IF e.kind = "broken"
           THEN /\ second' = [second EXCEPT !.idx = Len(Listing(fs)) + 1]
                /\ UNCHANGED <<plugins, cache, store, routed, stats>>
           ELSE \E out \in {LoadPluginFromFolder(folder, e, dbOk)} :
                    /\ plugins' = out.plugins
                    /\ cache' = out.cache
                    /\ store' = out.store
                    /\ routed' = out.routed
                    /\ stats' = [stats EXCEPT !.errors = out.errors]
                    /\ second' = [second EXCEPT !.idx = @ + 1]
    /\ UNCHANGED <<checked, inst, timers, app, report, fs, pc, idx, pass,
                   result, ops>>

SecondFinish ==
    /\ second.pc = "fs"
    /\ second.idx > Len(Listing(fs))
    /\ IF app = "express"
       THEN /\ stats' = [total |-> Len(plugins),
                         active |-> Cardinality({i \in 1..Len(plugins) :
                                                    plugins[i].config.active = "true"}),
                         errors |-> stats.errors]
            /\ timers' = timers + 1
       ELSE /\ stats' = [stats EXCEPT !.errors = @ + 1]
            /\ timers' = timers
    /\ second' = NoSecond
    /\ UNCHANGED <<checked, inst, app, report, plugins, cache, store, fs,
                   routed, pc, idx, pass, result, ops>>

ReloadNext ==
    \/ \E dbOk \in BOOLEAN, lsOk \in BOOLEAN : LoadStart(dbOk, lsOk)
    \/ \E dbOk \in BOOLEAN : LoadFolder(dbOk)
    \/ LoadFinish
    \/ \E dbOk \in BOOLEAN, lsOk \in BOOLEAN : SecondStart(dbOk, lsOk)
    \/ \E dbOk \in BOOLEAN : SecondFolder(dbOk)
    \/ SecondFinish

\* the two callers start on a manager whose store is still empty
ReloadInit == Init /\ store = EmptyStore

ReloadSpec == ReloadInit /\ [][ReloadNext]_vars

\* ------------------------------------------------------ concurrent installs

\* Two callers of installPlugin on the same manager. A call runs from its
\* start to its first await (fs.mkdir) in one piece, the validation and the
\* conflict check included; the calls interleave at the awaits.

InstallFailed(call, error, named) ==
    [call EXCEPT !.pc = "done",
                 !.result = Result("install", call.data.name, call.data, FALSE,
                                   error, named, "plugin:install:error")]

\* installPlugin up to the await of fs.mkdir
InstallBegin(c, pluginFile, pluginData, io) ==
    /\ inst[c].pc = "idle"
    /\ ops < MaxOps
    /\ LET call == [NoCall EXCEPT !.file = pluginFile, !.data = pluginData,
                                  !.io = io]
           check == PreCheck(plugins, pluginData)
       IN  inst' = [inst EXCEPT ![c] =
                       IF check.error # "none"
                       THEN InstallFailed(call, check.error, check.named)
                       ELSE [call EXCEPT !.pc = "write", !.passed = TRUE]]
    /\ ops' = ops + 1
    /\ UNCHANGED <<plugins, cache, store, fs, stats, pc, idx, routed, app,
                   pass, result, report, timers, checked, second>>

\* fs.mkdir, fs.writeFile and pluginFile.mv
InstallWrite(c) ==
    /\ inst[c].pc = "write"
    /\ LET call == inst[c]
       IN  IF call.io = "fsFail"
           THEN /\ inst' = [inst EXCEPT ![c] = InstallFailed(call, "IO_FAILURE", NoStr)]
                /\ fs' = fs
           ELSE /\ fs' = WriteDescriptor(fs, call.data)
                /\ inst' = [inst EXCEPT ![c] =
                               IF call.file /\ call.io = "mvFail"
                               THEN InstallFailed(call, "IO_FAILURE", NoStr)
                               ELSE [call EXCEPT !.pc = "create"]]
    /\ UNCHANGED <<plugins, cache, store, stats, pc, idx, routed, app, pass,
                   result, report, timers, checked, second, ops>>

\* Plugin.create and the return
InstallCreate(c) ==
    /\ inst[c].pc = "create"
    /\ LET call == inst[c]
           created == DbCreate(store, [call.data EXCEPT !.active = "true"])
       IN  IF call.io = "dbFail" \/ ~created.ok
           THEN /\ inst' = [inst EXCEPT ![c] = InstallFailed(call, "IO_FAILURE", NoStr)]
                /\ store' = store
           ELSE /\ store' = created.store
                /\ inst' = [inst EXCEPT ![c] =
                               [call EXCEPT !.pc = "done",
                                            !.result = Result("install", call.data.name,
                                                              call.data, TRUE, "none",
                                                              NoStr, "plugin:installed")]]
    /\ UNCHANGED <<plugins, cache, fs, stats, pc, idx, routed, app, pass,
                   result, report, timers, checked, second, ops>>

InstallRaceNext ==
    \/ \E c \in Callers, d \in InstallInputs, call \in InstallCalls :
           InstallBegin(c, call[1], d, call[2])
    \/ \E c \in Callers : InstallWrite(c)
    \/ \E c \in Callers : InstallCreate(c)

\* a manager with nothing or Alpha loaded, over any of the stores
InstallRaceInit ==
    /\ plugins \in {<<>>, <<[key |-> PluginKey(A1), config |-> A1]>>}
    /\ cache = EmptyCache
    /\ store \in InitStores
    /\ fs = [x \in Folders |-> Absent]
    /\ stats = [total |-> 0, active |-> 0, errors |-> 0]
    /\ pc = "idle"
    /\ idx = 0
    /\ routed = [n \in Names |-> 0]
    /\ app = "express"
    /\ pass = NoPass
    /\ result = NoResult
    /\ report = NoReport
    /\ timers = 0
    /\ checked = NoCheck
    /\ second = NoSecond
    /\ inst = NoCalls
    /\ ops = 0

InstallRaceSpec == InstallRaceInit /\ [][InstallRaceNext]_vars

\* ------------------------------------------------- an empty plugins directory

\* the manager over a plugins directory without any plugin folder: every
\* folder met later was written by installPlugin
FreshInit == Init /\ fs = [x \in Folders |-> Absent]

FreshSpec == FreshInit /\ [][Next]_vars

\* ------------------------------------------------------------------ claims

\* the pass has processed both sources: the Registry is what loadAll leaves
PassDone == pc = "fs" /\ idx > Len(Listing(fs))

\* p.active as a condition
IsActive(p) == p.active = "true"

\* C1: in every reachable state every descriptor held in the Registry is one
\* the Validator accepts.
C1_RegistryAccepted ==
    \A i \in 1..Len(plugins) : ValidatePluginConfig(plugins[i].config)

\* C2: in every reachable state no two active Registry entries have the same
\* route.
C2_NoSharedRoute ==
    \A i \in 1..Len(plugins) : \A j \in 1..Len(plugins) :
        (i # j /\ IsActive(plugins[i].config) /\ IsActive(plugins[j].config))
            => plugins[i].config.route # plugins[j].config.route

\* the directory entry the next turn of the filesystem pass processes
AtFolder == pc = "fs" /\ idx <= Len(Listing(fs))
CurrentEntry == fs[Listing(fs)[idx]]

\* C3 (as stated): at the end of a pass, every key that two candidates carried
\* is in the Registry, with the candidate that was processed first.
C3_FirstProcessedWins ==
    PassDone =>
        \A k \in pass.again :
            MapHas(plugins, k) /\ MapGet(plugins, k) = pass.first[k]

\* C3 (amended): during a pass no Registry entry is replaced or removed, and a
\* candidate whose key is already registered changes neither the Registry nor
\* the cache: each key keeps the candidate that was registered first.
C3_FirstRegisteredWins ==
    [][(pc = "fs" /\ pc' = "fs") =>
          /\ Len(plugins') >= Len(plugins)
          /\ \A i \in 1..Len(plugins) : plugins'[i] = plugins[i]
          /\ \A i \in 1..Len(plugins') : \A j \in 1..Len(plugins') :
                 plugins'[i].key = plugins'[j].key => i = j
          /\ (AtFolder /\ CurrentEntry.json = "ok"
              /\ MapHas(plugins, PluginKey(CurrentEntry.config)))
                 => (plugins' = plugins /\ cache' = cache)]_vars

\* C3 witness: a pass has met a second candidate of a key that is registered.
C3_Witness ==
    pc = "fs" /\ \E k \in pass.again : MapHas(plugins, k)

\* the directory entries that carry the identity key k
FoldersWithKey(k) ==
    {x \in Folders : fs[x].kind = "dir" /\ fs[x].json = "ok"
                       /\ PluginKey(fs[x].config) = k}

Colliding(pluginData) ==
    {i \in 1..Len(plugins) :
        \/ plugins[i].config.name = pluginData.name
        \/ plugins[i].config.route = pluginData.route}

\* the step is a call of installPlugin, uninstallPlugin
InstallStep == result'.op = "install" /\ ops' = ops + 1
UninstallStep == result'.op = "uninstall" /\ ops' = ops + 1

\* the install was refused as a conflict with an existing plugin it names, and
\* the Registry, the store and the plugin directories are as before
RefusedAsConflict ==
    /\ ~result'.success
    /\ result'.error = "CONFLICT"
    /\ \E i \in Colliding(result'.data) : result'.named = plugins[i].config.name
    /\ UNCHANGED <<plugins, store, fs>>

\* C5 (as stated): install of a descriptor that shares its route or its name
\* with a Registry entry fails with CONFLICT, names that plugin, and leaves the
\* Registry, the store and the plugin directories unchanged.
C5_CollisionIsConflict ==
    [][(InstallStep /\ Colliding(result'.data) # {}) => RefusedAsConflict]_vars

\* C5 (amended): the same, for a descriptor that the Validator accepts.
C5_ValidCollisionIsConflict ==
    [][(/\ InstallStep
        /\ ValidatePluginConfig(result'.data)
        /\ Colliding(result'.data) # {}) => RefusedAsConflict]_vars

\* C5 witness: an install was refused for the route of a plugin of another name.
C5_Witness ==
    /\ result.op = "install"
    /\ result.error = "CONFLICT"
    /\ \E i \in 1..Len(plugins) :
           /\ plugins[i].config.name = result.named
           /\ plugins[i].config.route = result.data.route
    /\ \A i \in 1..Len(plugins) : plugins[i].config.name # result.name

\* C6: install of a descriptor the Validator rejects fails with INVALID_CONFIG
\* and writes no directory or descriptor file, creates no store record and
\* emits no plugin-installed event.
C6_InvalidBeforePersistence ==
    [][(InstallStep /\ ~ValidatePluginConfig(result'.data)) =>
          /\ ~result'.success
          /\ result'.error = "INVALID_CONFIG"
          /\ result'.event # "plugin:installed"
          /\ UNCHANGED <<fs, store>>]_vars

\* C6 witness: an install was refused as invalid where nothing else stood in
\* its way: no Registry entry, no directory and no record of that name.
C6_Witness ==
    /\ result.op = "install"
    /\ result.error = "INVALID_CONFIG"
    /\ plugins = <<>>
    /\ fs[Slug(result.name)].kind = "absent"
    /\ result.name \notin DOMAIN store

\* C7: install never changes the Registry or the cache, whether it succeeds or
\* fails.
C7_InstallLeavesRegistry ==
    [][InstallStep => (plugins' = plugins /\ cache' = cache)]_vars

\* C7 witness: an install has succeeded while the Registry held another plugin.
C7_Witness ==
    /\ result.op = "install"
    /\ result.success
    /\ plugins # <<>>
    /\ \A i \in 1..Len(plugins) : plugins[i].config.name # result.name

\* the Registry holds the installed plugin, active
HoldsInstalled(prev) ==
    \E i \in 1..Len(plugins) :
        /\ plugins[i].config.name = prev.data.name
        /\ plugins[i].config.version = prev.data.version
        /\ IsActive(plugins[i].config)

C9_UnknownNameNotFound ==
    [][(/\ UninstallStep
        /\ \A i \in 1..Len(plugins) : plugins[i].config.name # result'.name) =>
          /\ ~result'.success
          /\ result'.error = "NOT_FOUND"
          /\ UNCHANGED <<plugins, cache, store>>]_vars

\* C9 witness: an uninstall found no entry of a name the store has an active
\* record of.
C9_Witness ==
    /\ result.op = "uninstall"
    /\ result.error = "NOT_FOUND"
    /\ result.name \in DOMAIN store
    /\ IsActive(store[result.name])

\* C10: after a successful uninstall(name) the store record of the name is
\* inactive and neither the Registry nor the cache has an entry of that name;
\* a failed store update leaves the Registry and the cache as they were.
C10_UninstallRemovesName ==
    /\ (result.op = "uninstall" /\ result.success) =>
           /\ result.name \in DOMAIN store => ~IsActive(store[result.name])
           /\ \A i \in 1..Len(plugins) : plugins[i].config.name # result.name
           /\ \A k \in DOMAIN cache : k[1] # result.name
    /\ (result.op = "uninstall" /\ result.error = "IO_FAILURE") =>
           \E i \in 1..Len(plugins) : plugins[i].config.name = result.name

\* the step is a call of updatePlugin
UpdateStep == result'.op = "update" /\ ops' = ops + 1

\* the Registry entries of a name
EntriesOf(m, name) == {i \in 1..Len(m) : m[i].config.name = name}

\* C11: update of a name no stored record has fails (NOT_FOUND, or the failure
\* of a store that does not answer) and leaves the Registry and the store
\* unchanged; after a successful update the Registry entry of the plugin equals
\* the stored record after the merge, and a Registry that held at most one
\* entry of the plugin before the call holds no other entry of it after.
C11_UpdateRefreshes ==
    [][UpdateStep =>
          /\ result'.name \notin DOMAIN store =>
                 /\ ~result'.success
                 /\ result'.error \in {"NOT_FOUND", "IO_FAILURE"}
                 /\ UNCHANGED <<plugins, store>>
          /\ result'.success =>
                 LET rec == store'[result'.name]
                 IN  /\ MapHas(plugins', PluginKey(rec))
                     /\ MapGet(plugins', PluginKey(rec)) = rec
                     /\ Cardinality(EntriesOf(plugins, result'.name)) <= 1 =>
                            \A i \in EntriesOf(plugins', result'.name) :
                                plugins'[i].key = PluginKey(rec)]_vars

\* the Registry as a map from key to field values
RegistryMap(m) == [k \in MapKeys(m) |-> MapGet(m, k)]

\* C12: a loadAll that directly follows a completed loadAll, both passes
\* without a failing store or filesystem call, leaves the Registry the first
\* one left: the same keys and, for each key, the same field values.
C12_ReloadSameRegistry ==
    (/\ PassDone
     /\ pass.prev.op = "loadAll"
     /\ pass.prev.event = "plugins:loaded"
     /\ pass.prev.clean
     /\ pass.clean)
        => RegistryMap(plugins) = RegistryMap(pass.before)

\* the directories of the listing that carry a descriptor the Validator
\* accepts and whose own loading does not fail
LoadableFolders ==
    {x \in Folders : /\ fs[x].kind = "dir"
                     /\ fs[x].json = "ok"
                     /\ ValidatePluginConfig(fs[x].config)
                     /\ fs[x].routes # "throws"}

\* C13: whatever fails on other directory entries (stat, reading or parsing
\* the descriptor, the route hook), a pass whose readdir succeeded leaves the
\* key of every loadable directory registered.
C13_FailureIsIsolated ==
    (PassDone /\ pass.lsOk) =>
        \A x \in LoadableFolders : MapHas(plugins, PluginKey(fs[x].config))

\* the step is the end of loadAllPlugins
FinishStep == pc = "fs" /\ pc' = "idle"

\* the directories whose descriptor the Validator rejects
InvalidFolders ==
    {x \in Folders : /\ fs[x].kind = "dir"
                     /\ fs[x].json = "ok"
                     /\ ~ValidatePluginConfig(fs[x].config)}

\* C14: a loadAll over a listing with a directory whose descriptor fails
\* validation ends with that descriptor not in the Registry, stats.total the
\* size of the Registry and stats.errors at least 1.
C14_InvalidSkippedAndCounted ==
    [][(/\ FinishStep
        /\ pass.lsOk
        /\ result'.event = "plugins:loaded"
        /\ InvalidFolders # {}) =>
          /\ \A x \in InvalidFolders : \A i \in 1..Len(plugins) :
                 plugins[i].config # fs[x].config
          /\ stats'.total = Len(plugins)
          /\ stats'.errors >= 1]_vars

\* a call of loadAllPlugins has returned
LoadReturned == pc = "idle" /\ result.op = "loadAll"

\* C15: every loadAll that has started completes, whatever the store and the
\* filesystem do, and a completed loadAll has thrown nothing to its caller and
\* has emitted one of plugins:loaded and plugins:error.
C15_LoadAllCompletes ==
    /\ (pc = "fs") ~> LoadReturned
    /\ [](LoadReturned =>
            /\ result.error # "THROWN"
            /\ result.event \in {"plugins:loaded", "plugins:error"})

\* C15 witness: a loadAll has completed with plugins:error after a pass in
\* which a store or filesystem call failed.
C15_Witness ==
    /\ LoadReturned
    /\ result.event = "plugins:error"
    /\ ~result.clean

\* C16: a loadAll whose fetch of the active persisted records failed ends as
\* a failed pass: stats.errors is incremented, plugins:error is emitted and
\* not plugins:loaded, and the Registry keeps the entries registered so far.
C16_StoreOutageFailsPass ==
    [][(FinishStep /\ ~pass.dbOk) =>
          /\ stats'.errors = stats.errors + 1
          /\ result'.event = "plugins:error"
          /\ plugins' = plugins]_vars

\* the kinds of error message a failed call returns
ErrorKinds == {"INVALID_CONFIG", "CONFLICT", "NOT_FOUND", "IO_FAILURE"}

\* C17: every call of install, uninstall and update returns a result object,
\* whatever fails: success true, or success false with an error message; no
\* exception leaves the call.
C17_LifecycleNeverThrows ==
    [][(InstallStep \/ UninstallStep \/ UpdateStep) =>
          /\ result'.error # "THROWN"
          /\ result'.success => result'.error = "none"
          /\ ~result'.success => result'.error \in ErrorKinds]_vars

\* C17 witness: an update has returned the failure of the store as a result.
C17_Witness ==
    /\ result.op = "update"
    /\ ~result.success
    /\ result.error = "IO_FAILURE"
    /\ result.name \in DOMAIN store

\* the step is a call of checkPluginHealth
HealthStep == result'.op = "health"

\* the error counter of the cache entry of the i-th Registry entry, -1 when it
\* has no cache entry
CounterOf(i) ==
    IF plugins[i].key \in DOMAIN cache THEN cache[plugins[i].key].errors ELSE -1

\* C18: the report of checkPluginHealth has one detail row per Registry entry,
\* in the order of the Registry; the row of an entry says error exactly when
\* the error counter of its cache entry is greater than 10, and healthy
\* otherwise; the counts add up: healthy + warnings + errors == total ==
\* number of rows == size of the Registry.
C18_ErrorAboveTen ==
    [][HealthStep =>
          /\ report'.total = Len(plugins)
          /\ Len(report'.details) = Len(plugins)
          /\ report'.healthy + report'.warnings + report'.errors = report'.total
          /\ report'.errors =
                 Cardinality({i \in 1..Len(plugins) : CounterOf(i) > 10})
          /\ \A i \in 1..Len(plugins) :
                 /\ report'.details[i].plugin = plugins[i].config.name
                 /\ report'.details[i].status =
                        IF CounterOf(i) > 10 THEN "error" ELSE "healthy"]_vars

\* C18 witness: a report with an error row for a counter of 11 and healthy
\* rows for a counter of 10 and for an entry without a cache entry.
C18_Witness ==
    /\ result.op = "health"
    /\ \E i, j, k \in 1..Len(plugins) :
           /\ CounterOf(i) = 11 /\ report.details[i].status = "error"
           /\ CounterOf(j) = 10 /\ report.details[j].status = "healthy"
           /\ CounterOf(k) = -1 /\ report.details[k].status = "healthy"

\* C19: checkPluginHealth leaves the Registry, the cache with its counters and
\* the store as they are.
C19_HealthOnlyMonitors ==
    [][HealthStep => UNCHANGED <<plugins, cache, store>>]_vars

\* C19 witness: a report has named a plugin as error, and that plugin is
\* still in the Registry, active, with its cache entry and counter.
C19_Witness ==
    /\ result.op = "health"
    /\ report.errors >= 1
    /\ \E i \in 1..Len(plugins) :
           /\ report.details[i].status = "error"
           /\ IsActive(plugins[i].config)
           /\ CounterOf(i) = 11

\* C20: the route hook of each plugin is invoked against the web layer at
\* most once, over any sequence of loadAll calls.
C20_HookAtMostOnce == \A n \in Names : routed[n] <= 1

\* The web layer has the route of plugin n bound: the plugin's route hook has
\* run against the app, and no code of the manager takes a route off the app.
RouteBound(n) == routed[n] >= 1

\* C21: after a successful uninstall(name) the route of that plugin is not
\* bound in the web layer any more.
C21_UninstallUnbindsRoute ==
    (result.op = "uninstall" /\ result.success) => ~RouteBound(result.name)

\* the required fields of a descriptor that are absent or empty
Blank(c) ==
    (IF c.name = NoStr THEN {"name"} ELSE {})
    \cup (IF c.version = NoSeq THEN {"version"} ELSE {})
    \cup (IF c.description = NoStr THEN {"description"} ELSE {})
    \cup (IF c.route = NoSeq THEN {"route"} ELSE {})
    \cup (IF c.category = NoStr THEN {"category"} ELSE {})

\* C22: the validator rejects every descriptor with an absent or empty
\* required field, and the failure it reports lists every such field.
C22_MissingFieldsAllListed ==
    (checked.done /\ Blank(checked.config) # {})
        => /\ ~checked.ok
           /\ checked.message = "Missing required fields"
           /\ checked.fields = Blank(checked.config)

\* C22 witness: a descriptor with several required fields missing was rejected.
C22_Witness ==
    /\ checked.done
    /\ ~checked.ok
    /\ Cardinality(Blank(checked.config)) >= 2
    /\ checked.fields = Blank(checked.config)

\* C23: the validator rejects every descriptor whose route does not match the
\* route pattern and every descriptor whose version does not match the version
\* pattern.
C23_ShapeEnforced ==
    (checked.done /\ (~RouteRegex(checked.config.route)
                      \/ ~VersionRegex(checked.config.version)))
        => ~checked.ok

\* C24: reloads are serialized, two passes of loadAll are never in progress
\* together.
C24_ReloadsSerialized == ~(pc = "fs" /\ second.pc = "fs")

\* both concurrent installs have returned, they were given the same name and
\* both got through the conflict check
RaceOver ==
    /\ \A c \in Callers : inst[c].pc = "done" /\ inst[c].passed
    /\ inst["c1"].data.name = inst["c2"].data.name

\* C25: of two concurrent installs of the same name that both got through the
\* in-memory conflict check, at most one returns success.
C25_OneInstallWins ==
    RaceOver => ~(inst["c1"].result.success /\ inst["c2"].result.success)

\* C25 witness: both calls got through the conflict check before either
\* created its record; one returned success, the creation of the other was
\* rejected by the store.
C25_Witness ==
    /\ RaceOver
    /\ \A c \in Callers : inst[c].io = "ok"
    /\ \E c \in Callers : inst[c].result.success
    /\ \E c \in Callers : ~inst[c].result.success
                          /\ inst[c].result.error = "IO_FAILURE"
    /\ "Alpha" \in DOMAIN store

\* C26: every entry of the Registry has active = true.
C26_RegistryAllActive ==
    \A i \in 1..Len(plugins) : plugins[i].config.active = "true"

\* C27: a plugin that was uninstalled stays out of the Registry when loadAll
\* runs next, with no install in between.
C27_UninstalledStaysOut ==
    (PassDone /\ pass.prev.op = "uninstall" /\ pass.prev.success)
        => \A i \in 1..Len(plugins) : plugins[i].config.name # pass.prev.name

\* the call before the pass was an install that failed after it had written
\* its descriptor, and no install under that name ever got its record created
FailedInstallLeftover ==
    /\ pass.prev.op = "install"
    /\ ~pass.prev.success
    /\ pass.prev.error = "IO_FAILURE"
    /\ fs[Slug(pass.prev.name)].kind = "dir"
    /\ fs[Slug(pass.prev.name)].config = pass.prev.data
    /\ pass.prev.name \notin DOMAIN pass.store0

\* C28: what a failed install left behind is not activated by the loadAll that
\* follows: its descriptor is not registered and no store record is created
\* for it.
C28_FailedInstallLeavesNothing ==
    (PassDone /\ FailedInstallLeftover)
        => /\ ~MapHas(plugins, PluginKey(pass.prev.data))
           /\ pass.prev.name \notin DOMAIN store

\* C29: the manager has at most one health-monitor timer, however many times
\* loadAll has completed.
C29_OneHealthTimer == timers <= 1

\* a pass that has cleared the Maps and fetched the store's records, before
\* any folder is loaded
JustCleared == pc = "fs" /\ (idx = 1 \/ ~pass.lsOk)

\* C30: whenever no load or lifecycle operation is in progress, every key of
\* the cache is a key of the Registry; loadAll clears both Maps: when it has
\* started, the cache is empty and the Registry holds records of the store
\* only.
C30_CacheWithinRegistry ==
    /\ pc = "idle" => DOMAIN cache \subseteq MapKeys(plugins)
    /\ JustCleared =>
           /\ cache = EmptyCache
           /\ MapKeys(plugins) \subseteq {PluginKey(store[n]) : n \in DOMAIN store}

\* C30 witness: an uninstall succeeded on a Registry of two loaded folders,
\* the cache still holds the entry of the other one.
C30_Witness ==
    /\ pc = "idle"
    /\ result.op = "uninstall"
    /\ result.success
    /\ DOMAIN cache # {}
    /\ DOMAIN cache \subseteq MapKeys(plugins)

\* C30 witness of the clearing: a pass started on a manager whose Maps were
\* filled by the pass before it.
C30_WitnessCleared ==
    /\ JustCleared
    /\ pass.before # <<>>
    /\ cache = EmptyCache

====
